---------------------------- MODULE Spec2Model ----------------------------
(***************************************************************************)
(* Model of the two command-line tools of monzo-webhook:                   *)
(*   scripts/delete_webhooks.py    (tool = "delete")                       *)
(*   scripts/register_webhooks.py  (tool = "register")                     *)
(* One behaviour is one process invocation.  The environment (token,      *)
(* argv) is fixed by Init; every HTTP response is chosen by the server,    *)
(* i.e. nondeterministically, when the call is made.                       *)
(*                                                                         *)
(* Strings that the code inspects character by character (the webhook URL) *)
(* are sequences of one-character strings.                                 *)
(*                                                                         *)
(* Library behaviour assumed:                                              *)
(*  - requests >= 2.27: Response.json() on a body that is not JSON raises  *)
(*    requests.exceptions.JSONDecodeError, a RequestException.             *)
(*  - a 2xx body that is JSON is a JSON object (the API's contract).       *)
(*  - urllib.parse.urlsplit: netloc is what follows "scheme://" up to the  *)
(*    first of "/", "?", "#"; an unmatched "[" in it raises ValueError.    *)
(***************************************************************************)
EXTENDS Integers, Sequences, FiniteSets, TLC

VARIABLES
    tool,               \* which script is run
    token,              \* os.environ.get("MONZO_ACCESS_TOKEN")
    argv,               \* sys.argv[1:], each argument a character sequence
    pc,                 \* position in main()
    exitCode,           \* process exit status, meaningful when pc = "exited"
    accounts,           \* main: accounts (account ids, server order)
    ai,                 \* index of the account the for-loop is at
    webhooks,           \* delete main: webhooks of the current account
    wi,                 \* index of the webhook the inner for-loop is at
    total_webhooks,     \* delete main
    deleted_webhooks,   \* delete main
    registered_count,   \* register main
    failed_count,       \* register main
    stdout,             \* set of message kinds printed to standard output
    stderr,             \* set of message kinds printed to standard error
    report,             \* the numbers printed by the summary, in order
    calls               \* HTTP requests issued so far, with their responses

vars == <<tool, token, argv, pc, exitCode, accounts, ai, webhooks, wi,
          total_webhooks, deleted_webhooks, registered_count, failed_count,
          stdout, stderr, report, calls>>

-----------------------------------------------------------------------------
(* Bounds of the model *)

MaxAccounts == 2
MaxWebhooks == 3
MaxRest == 2

(* Inputs *)

SeqsUpTo(S, n) == UNION {[1..k -> S] : k \in 0..n}

\* Account ids as the server returns them: n distinct ids, in server order.
AccountIds == <<"acc_1", "acc_2", "acc_3", "acc_4">>
AccountLists == {SubSeq(AccountIds, 1, n) : n \in 0..MaxAccounts}

\* The user has at most MaxWebhooks webhooks over all accounts: a listing
\* returns any list of ids of the length that is left.
WebhookIds == {"wh_a", "wh_b"}
WebhookLists(found) == SeqsUpTo(WebhookIds, MaxWebhooks - found)

\* Characters a URL is made of after its prefix: a host/path character,
\* the three characters urlsplit and hostname treat specially, a netloc
\* delimiter, and an opening bracket.
Chars == {"a", ":", "@", "/", "?", "["}

HttpPrefix == <<"h", "t", "t", "p", ":", "/", "/">>
HttpsPrefix == <<"h", "t", "t", "p", "s", ":", "/", "/">>
UrlPrefixes == {HttpPrefix, HttpsPrefix,
                <<"f", "t", "p", ":", "/", "/">>,
                <<"H", "T", "T", "P", ":", "/", "/">>,
                <<"h", "t", "t", "p", ":", "/">>,
                <<>>}
Urls == {p \o r : p \in UrlPrefixes, r \in SeqsUpTo(Chars, MaxRest)}

ArgvChoices == {<<>>} \cup {<<u>> : u \in Urls}
                 \cup {<<HttpsPrefix \o <<"a">>, <<"a">>>>}

TokenValues == {"unset", "empty", "set"}

-----------------------------------------------------------------------------
(* HTTP *)

\* One issued request and the response it got.
\*   status: "2xx", or "error" (transport failure, timeout or non-2xx: what
\*           requests/raise_for_status turn into a RequestException)
\*   body:   "none" (no response body was read), "empty_object" ({}),
\*           "object" (non-empty JSON object), or "not_json"
\*   items:  the list under the body's "accounts"/"webhooks" key
Call(method, path, arg, status, body, items) ==
    [method |-> method, path |-> path, arg |-> arg,
     status |-> status, body |-> body, items |-> items]

\* What a server can answer to a request whose 2xx body carries a list.
\* A non-2xx answer may carry a JSON body too; the code never reads it, so
\* the bodies with at most one entry stand for all of them.
ListResponses(lists) ==
    {[status |-> "error", body |-> "none", items |-> <<>>],
     [status |-> "2xx", body |-> "empty_object", items |-> <<>>],
     [status |-> "2xx", body |-> "not_json", items |-> <<>>]}
    \cup {[status |-> "2xx", body |-> "object", items |-> l] : l \in lists}
    \cup {[status |-> "error", body |-> "object", items |-> l] :
              l \in {e \in lists : Len(e) <= 1}}

\* What a server can answer to DELETE and POST.
PlainResponses ==
    {[status |-> "error", body |-> "none", items |-> <<>>],
     [status |-> "2xx", body |-> "empty_object", items |-> <<>>],
     [status |-> "2xx", body |-> "not_json", items |-> <<>>],
     [status |-> "2xx", body |-> "object", items |-> <<>>]}

\* try: raise_for_status(); response.json() ... except RequestException
RaisesRequestException(resp) ==
    resp.status = "error" \/ resp.body = "not_json"


-----------------------------------------------------------------------------
(* URL validation (register_webhooks.py main, lines 86-99) *)

\* str.startswith(prefix)
StartsWith(s, prefix) ==
    /\ Len(s) >= Len(prefix)
    /\ SubSeq(s, 1, Len(prefix)) = prefix

\* str.find(c), 1-based; 0 when c does not occur
Find(s, cs, from) ==
    IF \E k \in from..Len(s) : s[k] \in cs
    THEN CHOOSE k \in from..Len(s) :
            /\ s[k] \in cs
            /\ \A j \in from..(k - 1) : s[j] \notin cs
    ELSE 0

Letters == {"a", "f", "h", "p", "s", "t", "H", "P", "T"}
SchemeChars == Letters \cup {"+", "-", "."}
NetlocDelims == {"/", "?", "#"}

\* urlsplit: what is left of the url once a leading "scheme:" is taken off
AfterScheme(url) ==
    LET i == Find(url, {":"}, 1)
    IN  IF /\ i > 1
           /\ url[1] \in Letters
           /\ \A k \in 1..(i - 1) : url[k] \in SchemeChars
        THEN SubSeq(url, i + 1, Len(url))
        ELSE url

\* urlsplit(url).netloc, before the bracket check
Netloc(url) ==
    LET rest == AfterScheme(url)
        delim == Find(rest, NetlocDelims, 3)
        stop == IF delim = 0 THEN Len(rest) ELSE delim - 1
    IN  IF StartsWith(rest, <<"/", "/">>)
        THEN SubSeq(rest, 3, stop)
        ELSE <<>>

Contains(s, c) == \E k \in 1..Len(s) : s[k] = c

\* urlsplit raises ValueError("Invalid IPv6 URL")
UrlParseRaises(url) ==
    LET n == Netloc(url)
    IN  \/ (Contains(n, "[") /\ ~Contains(n, "]"))
        \/ (Contains(n, "]") /\ ~Contains(n, "["))

\* line 87: webhook_url.startswith(("http://", "https://"))
HasHttpPrefix(url) ==
    StartsWith(url, HttpPrefix) \/ StartsWith(url, HttpsPrefix)

\* Mutant: the netloc is not checked.
HasNetloc_Unchecked(url) == TRUE

\* line 94: parsed.netloc is truthy
HasNetloc(url) == Netloc(url) # <<>>

-----------------------------------------------------------------------------
(* The state after process start *)

Init ==
    /\ tool \in {"delete", "register"}
    /\ token \in TokenValues
    /\ argv \in (IF tool = "register" THEN ArgvChoices ELSE {<<>>})
    /\ pc = (IF tool = "register" THEN "check_args" ELSE "get_token")
    /\ exitCode = 0
    /\ accounts = <<>>
    /\ ai = 1
    /\ webhooks = <<>>
    /\ wi = 1
    /\ total_webhooks = 0
    /\ deleted_webhooks = 0
    /\ registered_count = 0
    /\ failed_count = 0
    /\ stdout = {}
    /\ stderr = {}
    /\ report = <<>>
    /\ calls = <<>>

\* Mutant: every exit is a plain return.
Exit_Zero(code) ==
    /\ pc' = "exited"
    /\ exitCode' = 0

\* sys.exit(code), or main() returning (code 0)
Exit(code) ==
    /\ pc' = "exited"
    /\ exitCode' = code

-----------------------------------------------------------------------------
(* register_webhooks.py: pre-flight checks *)

\* lines 77-84: if len(sys.argv) != 2: usage, sys.exit(1)
CheckArgs ==
    /\ pc = "check_args"
    /\ IF Len(argv) + 1 # 2
       THEN /\ stderr' = stderr \cup {"usage"}
            /\ Exit(1)
       ELSE /\ pc' = "check_prefix"
            /\ UNCHANGED <<stderr, exitCode>>
    /\ UNCHANGED <<tool, token, argv, accounts, ai, webhooks, wi,
                   total_webhooks, deleted_webhooks, registered_count,
                   failed_count, stdout, report, calls>>

\* lines 86-89
ValidatePrefix ==
    /\ pc = "check_prefix"
    /\ IF ~HasHttpPrefix(argv[1])
       THEN /\ stderr' = stderr \cup {"url_prefix"}
            /\ Exit(1)
       ELSE /\ pc' = "check_structure"
            /\ UNCHANGED <<stderr, exitCode>>
    /\ UNCHANGED <<tool, token, argv, accounts, ai, webhooks, wi,
                   total_webhooks, deleted_webhooks, registered_count,
                   failed_count, stdout, report, calls>>

\* lines 91-103: urlparse, netloc check, then the banner
ValidateStructure ==
    /\ pc = "check_structure"
    /\ IF UrlParseRaises(argv[1])
       THEN /\ stderr' = stderr \cup {"url_invalid"}
            /\ Exit(1)
            /\ UNCHANGED stdout
       ELSE IF ~HasNetloc(argv[1])
       THEN /\ stderr' = stderr \cup {"url_format"}
            /\ Exit(1)
            /\ UNCHANGED stdout
       ELSE /\ pc' = "get_token"
            /\ stdout' = stdout \cup {"banner"}
            /\ UNCHANGED <<stderr, exitCode>>
    /\ UNCHANGED <<tool, token, argv, accounts, ai, webhooks, wi,
                   total_webhooks, deleted_webhooks, registered_count,
                   failed_count, report, calls>>

-----------------------------------------------------------------------------
(* Both tools *)

\* Mutant: "if token is None".
TokenMissing_NoneOnly(t) == t = "unset"

\* "if not token": None and the empty string are both falsy
TokenMissing(t) == t # "set"

\* Mutant: the empty list is not checked for.
NoAccounts_Never(list) == FALSE

\* "if not accounts" (delete line 93, register line 112)
NoAccounts(list) == list = <<>>

\* "for account in accounts": the account of the i-th pass
AccountAt(list, i) == list[i]

\* get_access_token(); in delete_webhooks.py main prints its banner first
GetAccessToken ==
    /\ pc = "get_token"
    /\ IF TokenMissing(token)
       THEN /\ stderr' = stderr \cup {"token_remediation"}
            /\ Exit(1)
       ELSE /\ pc' = "list_accounts"
            /\ UNCHANGED <<stderr, exitCode>>
    /\ stdout' = (IF tool = "delete" THEN stdout \cup {"banner"} ELSE stdout)
    /\ UNCHANGED <<tool, token, argv, accounts, ai, webhooks, wi,
                   total_webhooks, deleted_webhooks, registered_count,
                   failed_count, report, calls>>

\* list_accounts() and main's "if not accounts" that follows it
ListAccounts ==
    /\ pc = "list_accounts"
    /\ \E resp \in ListResponses(AccountLists) :
        /\ calls' = Append(calls, Call("GET", "/accounts", "",
                                       resp.status, resp.body, resp.items))
        /\ IF RaisesRequestException(resp)
           THEN /\ stderr' = stderr \cup {"list_accounts_error"}
                /\ stdout' = stdout \cup {"fetching"}
                /\ Exit(1)
                /\ UNCHANGED accounts
           ELSE IF NoAccounts(resp.items)
           THEN /\ accounts' = resp.items
                /\ stdout' = stdout \cup {"fetching", "no_accounts"}
                /\ Exit(0)
                /\ UNCHANGED stderr
           ELSE /\ accounts' = resp.items
                /\ stdout' = stdout \cup {"fetching", "found_accounts"}
                /\ pc' = "loop"
                /\ UNCHANGED <<stderr, exitCode>>
    /\ UNCHANGED <<tool, token, argv, ai, webhooks, wi,
                   total_webhooks, deleted_webhooks, registered_count,
                   failed_count, report>>

-----------------------------------------------------------------------------
(* delete_webhooks.py: the workflow *)

\* Mutant: the body is read although the request failed.
ListWebhooksResult_IgnoresFailure(resp) == resp.items

\* list_webhooks(): the list returned, [] when the request raised
ListWebhooksResult(resp) ==
    IF RaisesRequestException(resp) THEN <<>> ELSE resp.items

\* DELETE reads no body: raise_for_status() alone decides
DeleteResponses ==
    {[status |-> "error", body |-> "none", items |-> <<>>],
     [status |-> "2xx", body |-> "none", items |-> <<>>]}

\* delete_webhook(): True, or False when the request raised
DeleteWebhookResult(resp) == resp.status = "2xx"

\* line 118: total_webhooks += len(webhooks)
CountFound(total, found) == total + Len(found)

\* Mutant: the counter goes up whatever delete_webhook() returned.
CountDeleted_IgnoresOutcome(deleted, ok) == deleted + 1

\* line 130 / 132: deleted_webhooks += 1 only when delete_webhook() is true
CountDeleted(deleted, ok) == IF ok THEN deleted + 1 ELSE deleted

\* Mutant: a failed deletion breaks out of the inner loop.
MoreWebhooks_StopsOnFailure(list, i, ok) == i < Len(list) /\ ok

\* line 121: the inner for-loop goes on to the next webhook, whatever ok is
MoreWebhooks(list, i, ok) == i < Len(list)

\* Mutant: the list is walked backwards.
WebhookAt_Reversed(list, i) == list[Len(list) - i + 1]

\* "for webhook in webhooks": the webhook of the i-th pass
WebhookAt(list, i) == list[i]

\* lines 104-118: one pass of the outer loop up to the inner loop
ListWebhooks ==
    /\ pc = "loop"
    /\ tool = "delete"
    /\ ai <= Len(accounts)
    /\ \E resp \in ListResponses(WebhookLists(total_webhooks)) :
        LET result == ListWebhooksResult(resp)
        IN  /\ calls' = Append(calls, Call("GET", "/webhooks",
                                           AccountAt(accounts, ai),
                                           resp.status, resp.body,
                                           resp.items))
            /\ stderr' = (IF RaisesRequestException(resp)
                          THEN stderr \cup {"list_webhooks_error"}
                          ELSE stderr)
            /\ webhooks' = result
            /\ IF result = <<>>
               THEN /\ stdout' = stdout \cup {"no_webhooks"}
                    /\ ai' = ai + 1
                    /\ UNCHANGED <<pc, wi, total_webhooks>>
               ELSE /\ stdout' = stdout \cup {"found_webhooks"}
                    /\ total_webhooks' = CountFound(total_webhooks, result)
                    /\ wi' = 1
                    /\ pc' = "delete_loop"
                    /\ UNCHANGED ai
    /\ UNCHANGED <<tool, token, argv, exitCode, accounts, deleted_webhooks,
                   registered_count, failed_count, report>>

\* lines 121-132: one pass of the inner loop
DeleteWebhook ==
    /\ pc = "delete_loop"
    /\ \E resp \in DeleteResponses :
        LET ok == DeleteWebhookResult(resp)
        IN  /\ calls' = Append(calls, Call("DELETE", "/webhooks/<id>",
                                           WebhookAt(webhooks, wi), resp.status,
                                           resp.body, resp.items))
            /\ deleted_webhooks' = CountDeleted(deleted_webhooks, ok)
            /\ stdout' = stdout \cup {IF ok THEN "deleted" ELSE "not_deleted"}
            /\ stderr' = (IF ok THEN stderr
                          ELSE stderr \cup {"delete_webhook_error"})
            /\ IF MoreWebhooks(webhooks, wi, ok)
               THEN /\ wi' = wi + 1
                    /\ UNCHANGED <<pc, ai>>
               ELSE /\ ai' = ai + 1
                    /\ pc' = "loop"
                    /\ UNCHANGED wi
    /\ UNCHANGED <<tool, token, argv, exitCode, accounts, webhooks,
                   total_webhooks, registered_count, failed_count, report>>

\* lines 134-140: the summary, then main returns
DeleteSummary ==
    /\ pc = "loop"
    /\ tool = "delete"
    /\ ai > Len(accounts)
    /\ report' = <<total_webhooks, deleted_webhooks,
                   total_webhooks - deleted_webhooks>>
    /\ stdout' = stdout \cup {"summary"}
    /\ Exit(0)
    /\ UNCHANGED <<tool, token, argv, accounts, ai, webhooks, wi,
                   total_webhooks, deleted_webhooks, registered_count,
                   failed_count, stderr, calls>>

-----------------------------------------------------------------------------
(* register_webhooks.py: the workflow *)

\* register_webhook(): response.json(), or None when the request raised
RegisterWebhookResult(resp) ==
    IF RaisesRequestException(resp) THEN "None" ELSE resp.body

\* line 131: "if result:" -- None and the empty dict are both falsy
Truthy(result) == result \notin {"None", "empty_object"}

\* Mutant: the else branch does not count.
FailedAfter_Forgets(failed, result) == failed

\* lines 131-138: exactly one of the two counters goes up by one
RegisteredAfter(registered, result) ==
    IF Truthy(result) THEN registered + 1 ELSE registered

FailedAfter(failed, result) ==
    IF Truthy(result) THEN failed ELSE failed + 1

\* lines 123-138: one pass of the loop
RegisterWebhook ==
    /\ pc = "loop"
    /\ tool = "register"
    /\ ai <= Len(accounts)
    /\ \E resp \in PlainResponses :
        LET result == RegisterWebhookResult(resp)
        IN  /\ calls' = Append(calls, Call("POST", "/webhooks",
                                           AccountAt(accounts, ai),
                                           resp.status, resp.body,
                                           resp.items))
            /\ stderr' = (IF RaisesRequestException(resp)
                          THEN stderr \cup {"register_webhook_error"}
                          ELSE stderr)
            /\ registered_count' = RegisteredAfter(registered_count, result)
            /\ failed_count' = FailedAfter(failed_count, result)
            /\ stdout' = stdout \cup {IF Truthy(result) THEN "registered"
                                      ELSE "not_registered"}
            /\ ai' = ai + 1
    /\ UNCHANGED <<tool, token, argv, pc, exitCode, accounts, webhooks, wi,
                   total_webhooks, deleted_webhooks, report>>

\* lines 140-145: the summary, then main returns
RegisterSummary ==
    /\ pc = "loop"
    /\ tool = "register"
    /\ ai > Len(accounts)
    /\ report' = <<registered_count, failed_count>>
    /\ stdout' = stdout \cup {"summary"}
    /\ Exit(0)
    /\ UNCHANGED <<tool, token, argv, accounts, ai, webhooks, wi,
                   total_webhooks, deleted_webhooks, registered_count,
                   failed_count, stderr, calls>>

-----------------------------------------------------------------------------

Next ==
    \/ CheckArgs
    \/ ValidatePrefix
    \/ ValidateStructure
    \/ GetAccessToken
    \/ ListAccounts
    \/ ListWebhooks
    \/ DeleteWebhook
    \/ DeleteSummary
    \/ RegisterWebhook
    \/ RegisterSummary

Spec == Init /\ [][Next]_vars

-----------------------------------------------------------------------------
(* Vocabulary of the properties, read off the observable run: the requests *)
(* issued, the two output streams and the exit status.                     *)

IsCall(c, method, path) == c.method = method /\ c.path = path

CallsOf(method, path) ==
    {i \in DOMAIN calls : IsCall(calls[i], method, path)}

Listings == CallsOf("GET", "/webhooks")
Deletes == CallsOf("DELETE", "/webhooks/<id>")
Posts == CallsOf("POST", "/webhooks")

\* The request failed: transport error, timeout, non-2xx, or a 2xx whose
\* body could not be parsed.
Failed(c) == c.status # "2xx" \/ c.body = "not_json"

\* The list a successful listing handed to the workflow.
Listed(c) == IF Failed(c) THEN <<>> ELSE c.items

Exited == pc = "exited"

\* The terminal state SUMMARY: the summary was printed and main returned.
Summarised == Exited /\ "summary" \in stdout

\* The index of the listing that follows call i, or one past the last call.
NextListing(i) ==
    IF \E j \in Listings : j > i
    THEN CHOOSE j \in Listings : j > i /\ \A k \in Listings : k > i => j <= k
    ELSE Len(calls) + 1

\* The number of DELETE requests for webhook w issued for the listing at i.
AttemptsFor(i, w) ==
    Cardinality({j \in (i + 1)..(NextListing(i) - 1) :
                    IsCall(calls[j], "DELETE", "/webhooks/<id>")
                    /\ calls[j].arg = w})

Occurrences(list, w) == Cardinality({k \in DOMAIN list : list[k] = w})

\* The number of webhooks handed to the workflow by the first n calls.
RECURSIVE FoundUpTo(_)
FoundUpTo(n) ==
    IF n = 0 THEN 0
    ELSE FoundUpTo(n - 1)
         + (IF IsCall(calls[n], "GET", "/webhooks")
            THEN Len(Listed(calls[n])) ELSE 0)

-----------------------------------------------------------------------------
\* C1. Deletion workflow: when the summary is reached, the reported failed
\* count is the number of DELETE requests that failed, the reported deleted
\* count is the number of DELETE requests that succeeded, and the reported
\* total found is their sum.
C1_DeletionAccounting ==
    (tool = "delete" /\ Summarised) =>
        LET nOk == Cardinality({i \in Deletes : calls[i].status = "2xx"})
            nFailed == Cardinality({i \in Deletes : calls[i].status # "2xx"})
        IN  /\ Len(report) = 3
            /\ report[2] = nOk
            /\ report[3] = nFailed
            /\ report[1] = report[2] + report[3]

\* A summary over two accounts with deletions that succeeded and that failed.
C1_Witness ==
    /\ tool = "delete"
    /\ Summarised
    /\ Len(accounts) = 2
    /\ report[2] >= 1
    /\ report[3] >= 2

\* C2. Deletion workflow: a failed DELETE neither aborts the run nor is
\* retried: at no time has a listed webhook had more DELETE requests than
\* the listing holds entries of it, at the summary each has had exactly
\* that many, and a run that has issued a DELETE ends only with the summary.
C2_OneAttemptPerWebhook ==
    tool = "delete" =>
        /\ \A i \in Listings : \A w \in WebhookIds :
              /\ AttemptsFor(i, w) <= Occurrences(Listed(calls[i]), w)
              /\ Summarised =>
                    AttemptsFor(i, w) = Occurrences(Listed(calls[i]), w)
        /\ (Exited /\ Deletes # {}) => (Summarised /\ exitCode = 0)

\* A finished run in which a DELETE failed and was followed by another DELETE
\* of the same account and by a DELETE of a later account.
C2_Witness ==
    /\ tool = "delete"
    /\ Summarised
    /\ \E j \in Deletes :
          /\ calls[j].status = "error"
          /\ j + 1 \in Deletes
          /\ \E m \in Listings : m > j /\ m + 1 \in Deletes

\* C3. Registration workflow: every account gets exactly one POST, in order,
\* each POST is counted in exactly one of the two counters, and at the
\* summary registered + failed is the number of accounts.
C3_RegistrationAccounting ==
    tool = "register" =>
        /\ registered_count + failed_count = Cardinality(Posts)
        /\ \A i \in Posts : i >= 2 /\ calls[i].arg = accounts[i - 1]
        /\ Summarised =>
              /\ Len(calls) = 1 + Len(accounts)
              /\ report = <<registered_count, failed_count>>
              /\ report[1] + report[2] = Len(accounts)

\* A summary after one account was registered and another failed.
C3_Witness ==
    /\ tool = "register"
    /\ Summarised
    /\ report[1] >= 1
    /\ report[2] >= 1

\* C4. Deletion workflow: after a webhook listing that failed, the next
\* request is the listing of the next account and never a DELETE, the total
\* found counts only the webhooks of listings that succeeded, the run ends
\* only with the summary, and by then every account has been listed.
C4_ListingFailureSkipsAccount ==
    tool = "delete" =>
        /\ \A i \in Listings :
              (Failed(calls[i]) /\ i < Len(calls)) => i + 1 \in Listings
        /\ total_webhooks = FoundUpTo(Len(calls))
        /\ (Exited /\ Listings # {}) => (Summarised /\ exitCode = 0)
        /\ Summarised =>
              /\ Cardinality(Listings) = Len(accounts)
              /\ \A k \in 1..Len(accounts) :
                    Cardinality({i \in Listings : calls[i].arg = accounts[k]}) = 1

\* The listing of the first account failed with a body that names webhooks,
\* the second account's webhooks were listed and deleted, summary reached.
C4_Witness ==
    /\ tool = "delete"
    /\ Summarised
    /\ Len(calls) >= 4
    /\ calls[2].status = "error"
    /\ calls[2].items # <<>>
    /\ 3 \in Listings
    /\ 4 \in Deletes
    /\ report[1] >= 1

\* C5. Both workflows: when GET /accounts fails or yields no account, it
\* stays the only request of the run, which is over; with no account the
\* no-accounts message has been printed.
C5_NoAccountsNoWebhookCalls ==
    (calls # <<>> /\ (Failed(calls[1]) \/ Listed(calls[1]) = <<>>)) =>
        /\ IsCall(calls[1], "GET", "/accounts")
        /\ Len(calls) = 1
        /\ Exited
        /\ "summary" \notin stdout
        /\ ~Failed(calls[1]) => "no_accounts" \in stdout

\* The registration tool was answered 2xx with an empty account list.
C5_Witness ==
    /\ tool = "register"
    /\ Len(calls) = 1
    /\ calls[1].status = "2xx"
    /\ calls[1].body = "object"
    /\ calls[1].items = <<>>
    /\ "no_accounts" \in stdout

\* The host of a URL, as urllib's SplitResult.hostname computes it: the
\* netloc after its last "@", up to its first ":" (inside "[", up to "]").
LastAt(s) ==
    IF Contains(s, "@")
    THEN CHOOSE k \in 1..Len(s) :
            s[k] = "@" /\ \A j \in (k + 1)..Len(s) : s[j] # "@"
    ELSE 0

UpTo(s, cs) ==
    LET k == Find(s, cs, 1)
    IN  IF k = 0 THEN s ELSE SubSeq(s, 1, k - 1)

Hostname(url) ==
    LET n == Netloc(url)
        hostinfo == SubSeq(n, LastAt(n) + 1, Len(n))
        open == Find(hostinfo, {"["}, 1)
    IN  IF open # 0
        THEN UpTo(SubSeq(hostinfo, open + 1, Len(hostinfo)), {"]"})
        ELSE UpTo(hostinfo, {":"})

PreFlight == {"check_args", "check_prefix", "check_structure"}

\* The run has passed the argument checks (the banner of line 101 follows
\* them directly).
PassedValidation == tool = "register" /\ "banner" \in stdout

\* C6 as stated: a wrong argument count, a URL without the http(s) prefix
\* or a URL whose host is empty ends the run with a non-zero status and no
\* request; every URL that passes has the prefix and a non-empty host.
C6_AsStated ==
    tool = "register" =>
        /\ (\/ Len(argv) # 1
            \/ ~(StartsWith(argv[1], HttpPrefix)
                 \/ StartsWith(argv[1], HttpsPrefix))
            \/ Hostname(argv[1]) = <<>>)
           => /\ calls = <<>>
              /\ pc \in PreFlight \cup {"exited"}
              /\ Exited => exitCode = 1
        /\ PassedValidation =>
              /\ Len(argv) = 1
              /\ StartsWith(argv[1], HttpPrefix)
                 \/ StartsWith(argv[1], HttpsPrefix)
              /\ Hostname(argv[1]) # <<>>

\* C6, amended. Registration tool: a wrong argument count, a URL without
\* the http:// or https:// prefix, or a URL whose network location (the
\* text between "://" and the next "/", "?" or "#") is empty or does not
\* parse, ends the run with status 1, an error on standard error and no
\* request; every URL that passes has the prefix and a non-empty network
\* location.
C6_Validation ==
    tool = "register" =>
        /\ (\/ Len(argv) # 1
            \/ ~(StartsWith(argv[1], HttpPrefix)
                 \/ StartsWith(argv[1], HttpsPrefix))
            \/ Netloc(argv[1]) = <<>>
            \/ (Contains(Netloc(argv[1]), "[")
                /\ ~Contains(Netloc(argv[1]), "]")))
           => /\ calls = <<>>
              /\ pc \in PreFlight \cup {"exited"}
              /\ Exited => (exitCode = 1 /\ stderr # {})
        /\ PassedValidation =>
              /\ Len(argv) = 1
              /\ StartsWith(argv[1], HttpPrefix)
                 \/ StartsWith(argv[1], HttpsPrefix)
              /\ Netloc(argv[1]) # <<>>

\* A URL with the prefix and an empty network location was rejected.
C6_Witness ==
    /\ tool = "register"
    /\ Len(argv) = 1
    /\ StartsWith(argv[1], HttpsPrefix)
    /\ Netloc(argv[1]) = <<>>
    /\ Exited
    /\ "url_format" \in stderr

\* The argument checks of the run's tool all pass (the deletion tool has
\* none).
ArgumentsPass ==
    \/ tool = "delete"
    \/ /\ Len(argv) = 1
       /\ StartsWith(argv[1], HttpPrefix) \/ StartsWith(argv[1], HttpsPrefix)
       /\ Netloc(argv[1]) # <<>>
       /\ ~Contains(Netloc(argv[1]), "[")

\* C7 as stated: with the credential unset or empty no request is made and
\* the run ends with a non-zero status and the credential's remediation
\* text on standard error, whichever check fails first.
C7_AsStated ==
    token # "set" =>
        /\ calls = <<>>
        /\ Exited => (exitCode = 1 /\ "token_remediation" \in stderr)

\* C7, amended. With the credential unset or empty no request is made and
\* the run ends with status 1 and an error on standard error; that error
\* is the credential's remediation text exactly when the tool's argument
\* checks pass (always, in the deletion tool), and the argument error
\* otherwise.
C7_MissingCredential ==
    token # "set" =>
        /\ calls = <<>>
        /\ pc \in PreFlight \cup {"get_token", "exited"}
        /\ Exited =>
              /\ exitCode = 1
              /\ stderr # {}
              /\ "token_remediation" \in stderr <=> ArgumentsPass

\* The registration tool, given a valid URL and an empty credential, has
\* ended with the remediation text.
C7_Witness ==
    /\ tool = "register"
    /\ token = "empty"
    /\ Exited
    /\ "token_remediation" \in stderr

\* C8 as stated: a failed and an empty account listing both end the run
\* with a non-zero status and without the summary; a run that has called
\* the API ends either with the summary or in that way.
C8_AsStated ==
    (Exited /\ calls # <<>>) =>
        /\ (Failed(calls[1]) \/ Listed(calls[1]) = <<>>)
              => (exitCode # 0 /\ "summary" \notin stdout)
        /\ "summary" \in stdout
              <=> ~(Failed(calls[1]) \/ Listed(calls[1]) = <<>>)

\* C8, amended. A failed account listing ends the run with status 1 and
\* without the summary; an empty one ends it without the summary too, after
\* the no-accounts message, but with status 0; a run that has called the
\* API ends either with the summary (status 0) or in one of these two ways,
\* and until it has ended it can always take a step.
C8_AccountListingOutcomes ==
    /\ (calls # <<>> /\ Failed(calls[1])) =>
          (Exited /\ exitCode = 1 /\ "summary" \notin stdout)
    /\ (calls # <<>> /\ ~Failed(calls[1]) /\ Listed(calls[1]) = <<>>) =>
          /\ Exited
          /\ exitCode = 0
          /\ "no_accounts" \in stdout
          /\ "summary" \notin stdout
    /\ (Exited /\ calls # <<>>) =>
          /\ "summary" \in stdout
                <=> ~(Failed(calls[1]) \/ Listed(calls[1]) = <<>>)
          /\ "summary" \in stdout => exitCode = 0
    /\ ~Exited => ENABLED Next

\* The deletion tool was answered 2xx with no account and ended with 0.
C8_Witness ==
    /\ tool = "delete"
    /\ Exited
    /\ Len(calls) = 1
    /\ calls[1].status = "2xx"
    /\ Listed(calls[1]) = <<>>
    /\ exitCode = 0

\* C9. Deletion workflow: GET /accounts is the first request and the only
\* one of its kind; the k-th listing is that of the k-th account; the
\* requests after a listing are the DELETEs of its webhooks, in listing
\* order, and then the next listing; the summary comes after the last
\* account's last DELETE.
C9_CallOrder ==
    tool = "delete" =>
        /\ calls # <<>> => CallsOf("GET", "/accounts") = {1}
        /\ \A i \in Listings :
              LET k == Cardinality({j \in Listings : j <= i})
                  ws == Listed(calls[i])
              IN  /\ k <= Len(accounts)
                  /\ calls[i].arg = accounts[k]
                  /\ \A n \in 1..Len(ws) :
                        i + n <= Len(calls) =>
                           /\ i + n \in Deletes
                           /\ calls[i + n].arg = ws[n]
                  /\ i + Len(ws) < Len(calls) => i + Len(ws) + 1 \in Listings
        /\ \A j \in Deletes : j >= 3
        /\ "summary" \in stdout =>
              /\ Cardinality(Listings) = Len(accounts)
              /\ Len(calls) = 1 + Len(accounts) + FoundUpTo(Len(calls))

\* A finished run over two accounts whose first listing named two different
\* webhooks.
C9_Witness ==
    /\ tool = "delete"
    /\ Summarised
    /\ Len(accounts) = 2
    /\ Len(calls) >= 5
    /\ Len(Listed(calls[2])) = 2
    /\ calls[3].arg # calls[4].arg
    /\ 5 \in Listings

\* C10 as stated. Registration workflow: the registered count is the number
\* of POST requests answered 2xx and the failed count the number of those
\* that were not.
C10_AsStated ==
    tool = "register" =>
        /\ registered_count
              = Cardinality({i \in Posts : calls[i].status = "2xx"})
        /\ failed_count
              = Cardinality({i \in Posts : calls[i].status # "2xx"})

=============================================================================
